---- MODULE Spec2Model ----
(***************************************************************************)
(* Model of the tmux controller of src/mcp_servers/tmux.py (class TmuxMCP).*)
(*                                                                         *)
(* The tmux server is the environment: sessions, their windows, the panes  *)
(* of each window, each pane's scrollback and the keystrokes delivered to  *)
(* the panes.  The controller binds one session at construction and then   *)
(* answers calls; every call is one atomic action whose outcome (return    *)
(* value or raised exception) is recorded in `last`.                       *)
(*                                                                         *)
(* libtmux is modelled by the contract the controller is written against:  *)
(* a lookup (`find_where`, `.get(...)`) yields None on a miss.             *)
(***************************************************************************)
EXTENDS Integers, Sequences, FiniteSets, TLC

\* ------------------------------------------------------------------ bounds
MaxPanes   == 2     \* panes ever created on the server (a window is created with a pane)
MaxOutput  == 3     \* lines of output held by all panes together
ScreenRows == 2     \* rows of a pane's visible screen

SessionNames == {"main", "work"}         \* sessions that may be live
Texts        == {"ls", "cd"}             \* texts a caller sends
Enter        == "Enter"                  \* the line-terminator keystroke

WindowIds == 1 .. MaxPanes
PaneIds   == 1 .. MaxPanes

\* Optional[...] values: None is <<>>, a given value x is <<x>>.
None    == <<>>
Some(x) == <<x>>

\* ------------------------------------------------------------- state
VARIABLES
    sessions,   \* live session names, in the server's enumeration order
    wins,       \* wins[s]: window ids of session s, in tmux order
    panes,      \* panes[w]: pane ids of window w, in tmux order
    buf,        \* buf[p]: the lines pane p retains, oldest first
    keylog,     \* keystrokes written to the panes' input streams by the call
    nextWin,    \* next window id the server hands out
    nextPane,   \* next pane id the server hands out
    ctl,        \* "unbound" | "bound" | "failed"
    session,    \* self.session: the bound session (None before binding)
    warnings,   \* number of logger.warning calls made
    last        \* the call just made and its outcome (Idle between calls)

world == <<sessions, wins, panes, buf, keylog, nextWin, nextPane>>
vars  == <<sessions, wins, panes, buf, keylog, nextWin, nextPane,
           ctl, session, warnings, last>>

\* ------------------------------------------------------------- helpers
RECURSIVE SeqSum(_)
SeqSum(s) == IF s = <<>> THEN 0 ELSE Head(s) + SeqSum(Tail(s))

Range(s) == {s[i] : i \in DOMAIN s}

RECURSIVE Flatten(_)
Flatten(ss) == IF ss = <<>> THEN <<>> ELSE Head(ss) \o Flatten(Tail(ss))

Remove(s, x) == SelectSeq(s, LAMBDA y : y # x)

SetMax(S) == CHOOSE x \in S : \A y \in S : y <= x

\* A line of output: the n-th line pane p printed.  The newline separator is
\* a token of the same shape that is no line.
Line(p, n) == <<p, n>>
NL         == <<0, 0>>

\* "\n".join(lines)
RECURSIVE Join(_)
Join(lines) ==
    IF lines = <<>> THEN <<>>
    ELSE IF Len(lines) = 1 THEN <<lines[1]>>
    ELSE <<Head(lines), NL>> \o Join(Tail(lines))

\* lines[-n:] for n > 0
LastN(lines, n) ==
    IF n >= Len(lines) THEN lines
    ELSE SubSeq(lines, Len(lines) - n + 1, Len(lines))

\* ------------------------------------------------------- the tmux server
\* pane.capture_pane(): the rows on screen
Screen(lines)   == LastN(lines, ScreenRows)
VisibleLines(p) == Screen(buf[p])
\* pane.capture_pane("-"): the whole retained history
FullLines(p) == buf[p]

\* session.windows, session.panes
SessionWindows(s) == wins[s]
SessionPanes(s)   == Flatten([i \in DOMAIN wins[s] |-> panes[wins[s][i]]])

\* QueryList.get(...) / find_where(...): the object, or None on a miss
Lookup(seq, x) == IF x \in Range(seq) THEN Some(x) ELSE None

IndexOf(seq, x) == CHOOSE i \in DOMAIN seq : seq[i] = x

\* tmux format values of a window and of a pane
WindowName(w)       == <<"name", w>>
WindowIndex(s, w)   == IndexOf(wins[s], w) - 1
PaneIndex(w, p)     == IndexOf(panes[w], p) - 1
PaneActiveFmt(w, p) == IF p = SetMax(Range(panes[w])) THEN "1" ELSE "0"
PaneCommand(p)      == <<"cmd", p>>
PaneTitle(p)        == <<"title", p>>
PanePath(p)         == <<"cwd", p>>

TotalOutput == SeqSum([p \in PaneIds |-> Len(buf[p])])

\* ------------------------------------------------------------- outcomes
NoErr == [type |-> "", msg |-> "", arg |-> None]
Idle  == [op |-> "none", arg |-> <<>>, outcome |-> "none", value |-> <<>>,
          err |-> NoErr, reads |-> 0]

Return(op, arg, value, reads) ==
    [op |-> op, arg |-> arg, outcome |-> "return", value |-> value,
     err |-> NoErr, reads |-> reads]

Raise(op, arg, err, reads) ==
    [op |-> op, arg |-> arg, outcome |-> "raise", value |-> <<>>,
     err |-> err, reads |-> reads]

\* raise RuntimeError("No tmux sessions found. Start one before using this server.")
NoSessionsErr == [type |-> "RuntimeError", msg |-> "No tmux sessions found", arg |-> None]
\* raise ValueError(f"tmux session '{session_name}' not found.")
SessionMissingErr(name) ==
    [type |-> "ValueError", msg |-> "tmux session not found", arg |-> Some(name)]
\* raise ValueError(f"Pane '{pane_id}' not found.")
PaneMissingErr(p) == [type |-> "ValueError", msg |-> "Pane not found", arg |-> Some(p)]
\* raise ValueError("mode must be 'visible' or 'full'")
BadModeErr == [type |-> "ValueError", msg |-> "mode must be 'visible' or 'full'", arg |-> None]

\* ------------------------------------------------------------- Init
\* Every live session has one window holding one pane.
SessionOrders == {<<>>, <<"main">>, <<"work">>, <<"main", "work">>, <<"work", "main">>}

Init ==
    /\ sessions \in SessionOrders
    /\ wins = [s \in SessionNames |->
                 IF s \in Range(sessions) THEN <<IndexOf(sessions, s)>> ELSE <<>>]
    /\ panes = [w \in WindowIds |-> IF w <= Len(sessions) THEN <<w>> ELSE <<>>]
    /\ buf = [p \in PaneIds |-> <<>>]
    /\ keylog = <<>>
    /\ nextWin = Len(sessions) + 1
    /\ nextPane = Len(sessions) + 1
    /\ ctl = "unbound"
    /\ session = None
    /\ warnings = 0
    /\ last = Idle


\* ------------------------------------------------- the environment (tmux)
\* Windows and panes are created and destroyed outside the controller and
\* panes print output.  Each of these steps ends the observation of the
\* previous call: the outcome is dropped and the keystrokes it wrote are
\* consumed by the programs in the panes.
NewWindow(s) ==
    /\ s \in Range(sessions)
    /\ nextPane <= MaxPanes
    /\ wins' = [wins EXCEPT ![s] = Append(@, nextWin)]
    /\ panes' = [panes EXCEPT ![nextWin] = <<nextPane>>]
    /\ nextWin' = nextWin + 1
    /\ nextPane' = nextPane + 1
    /\ keylog' = <<>>
    /\ last' = Idle
    /\ UNCHANGED <<sessions, buf, ctl, session, warnings>>

SplitWindow(w) ==
    /\ panes[w] # <<>>
    /\ nextPane <= MaxPanes
    /\ panes' = [panes EXCEPT ![w] = Append(@, nextPane)]
    /\ nextPane' = nextPane + 1
    /\ keylog' = <<>>
    /\ last' = Idle
    /\ UNCHANGED <<sessions, wins, buf, nextWin, ctl, session, warnings>>

\* A pane dies; its window dies with its last pane.  The last window of a
\* session is kept, so that the sessions stay as they were at construction.
KillPane(w, p) ==
    /\ p \in Range(panes[w])
    /\ \/ /\ Len(panes[w]) > 1
          /\ panes' = [panes EXCEPT ![w] = Remove(@, p)]
          /\ wins' = wins
       \/ /\ Len(panes[w]) = 1
          /\ \E s \in Range(sessions) : w \in Range(wins[s]) /\ Len(wins[s]) > 1
          /\ panes' = [panes EXCEPT ![w] = <<>>]
          /\ wins' = [s \in SessionNames |-> Remove(wins[s], w)]
    /\ buf' = [buf EXCEPT ![p] = <<>>]
    /\ keylog' = <<>>
    /\ last' = Idle
    /\ UNCHANGED <<sessions, nextWin, nextPane, ctl, session, warnings>>

Output(p) ==
    /\ \E w \in WindowIds : p \in Range(panes[w])
    /\ TotalOutput < MaxOutput
    /\ buf' = [buf EXCEPT ![p] = Append(@, Line(p, Len(@) + 1))]
    /\ keylog' = <<>>
    /\ last' = Idle
    /\ UNCHANGED <<sessions, wins, panes, nextWin, nextPane,
                   ctl, session, warnings>>

\* ------------------------------------------------------ TmuxMCP.__init__
SessionNameArgs == {None, Some(""), Some("main"), Some("work"), Some("gone")}

\* `if session_name:` -- None and the empty string are both falsy
Truthy(session_name) == session_name # None /\ session_name[1] # ""

\* Bind, warning whenever a session is defaulted to (len(sessions) >= 1).
Bind_WarnAlways(session_name) ==
    IF sessions = <<>>
    THEN [outcome |-> "raise", err |-> NoSessionsErr, session |-> None, warned |-> 0]
    ELSE IF Truthy(session_name)
    THEN LET found == Lookup(sessions, session_name[1])
         IN IF found = None
            THEN [outcome |-> "raise", err |-> SessionMissingErr(session_name[1]),
                  session |-> None, warned |-> 0]
            ELSE [outcome |-> "return", err |-> NoErr, session |-> found, warned |-> 0]
    ELSE [outcome |-> "return", err |-> NoErr, session |-> Some(sessions[1]),
          warned |-> 1]

\* Bind, falling back to the first session when the named one is absent.
Bind_FallsBack(session_name) ==
    IF sessions = <<>>
    THEN [outcome |-> "raise", err |-> NoSessionsErr, session |-> None, warned |-> 0]
    ELSE IF Truthy(session_name) /\ Lookup(sessions, session_name[1]) # None
    THEN [outcome |-> "return", err |-> NoErr,
          session |-> Lookup(sessions, session_name[1]), warned |-> 0]
    ELSE [outcome |-> "return", err |-> NoErr, session |-> Some(sessions[1]),
          warned |-> IF Len(sessions) > 1 THEN 1 ELSE 0]

\* The constructor's outcome: the exception raised or the session bound, and
\* the warnings logged.
Bind(session_name) ==
    IF sessions = <<>>
    THEN [outcome |-> "raise", err |-> NoSessionsErr, session |-> None, warned |-> 0]
    ELSE IF Truthy(session_name)
    THEN LET found == Lookup(sessions, session_name[1])
         IN IF found = None
            THEN [outcome |-> "raise", err |-> SessionMissingErr(session_name[1]),
                  session |-> None, warned |-> 0]
            ELSE [outcome |-> "return", err |-> NoErr, session |-> found, warned |-> 0]
    ELSE [outcome |-> "return", err |-> NoErr, session |-> Some(sessions[1]),
          warned |-> IF Len(sessions) > 1 THEN 1 ELSE 0]

Construct(session_name) ==
    /\ ctl = "unbound"
    /\ last = Idle
    /\ LET b == Bind(session_name)
       IN /\ ctl' = IF b.outcome = "return" THEN "bound" ELSE "failed"
          /\ session' = b.session
          /\ warnings' = warnings + b.warned
          /\ last' = [op |-> "init", arg |-> <<session_name>>, outcome |-> b.outcome,
                      value |-> b.session, err |-> b.err, reads |-> 0]
    /\ UNCHANGED world

\* ------------------------------------------------------ the read operations
list_window_ids ==
    Return("list_window_ids", <<>>, SessionWindows(session[1]), 1)

\* list_pane_ids, treating a missing window the way the captures treat a
\* missing pane.
list_pane_ids_Strict(window_id) ==
    LET window == Lookup(SessionWindows(session[1]), window_id)
    IN IF window = None
       THEN Raise("list_pane_ids", <<window_id>>,
                  [type |-> "ValueError", msg |-> "Window not found", arg |-> Some(window_id)], 1)
       ELSE Return("list_pane_ids", <<window_id>>, panes[window[1]], 2)

list_pane_ids(window_id) ==
    LET window == Lookup(SessionWindows(session[1]), window_id)
    IN IF window = None
       THEN Return("list_pane_ids", <<window_id>>, <<>>, 1)
       ELSE Return("list_pane_ids", <<window_id>>, panes[window[1]], 2)

capture_visible_pane(pane_id) ==
    LET pane == Lookup(SessionPanes(session[1]), pane_id)
    IN IF pane = None
       THEN Raise("capture_visible_pane", <<pane_id>>, PaneMissingErr(pane_id), 1)
       ELSE Return("capture_visible_pane", <<pane_id>>, Join(VisibleLines(pane[1])), 2)

\* capture_full_pane, answering a missing pane with the empty text.
capture_full_pane_Lenient(pane_id) ==
    LET pane == Lookup(SessionPanes(session[1]), pane_id)
    IN IF pane = None
       THEN Return("capture_full_pane", <<pane_id>>, <<>>, 1)
       ELSE Return("capture_full_pane", <<pane_id>>, Join(FullLines(pane[1])), 2)

capture_full_pane(pane_id) ==
    LET pane == Lookup(SessionPanes(session[1]), pane_id)
    IN IF pane = None
       THEN Raise("capture_full_pane", <<pane_id>>, PaneMissingErr(pane_id), 1)
       ELSE Return("capture_full_pane", <<pane_id>>, Join(FullLines(pane[1])), 2)

ListWindowIds ==
    /\ ctl = "bound"
    /\ last = Idle
    /\ last' = list_window_ids
    /\ UNCHANGED <<world, ctl, session, warnings>>

ListPaneIds(window_id) ==
    /\ ctl = "bound"
    /\ last = Idle
    /\ last' = list_pane_ids(window_id)
    /\ UNCHANGED <<world, ctl, session, warnings>>

CaptureVisible(pane_id) ==
    /\ ctl = "bound"
    /\ last = Idle
    /\ last' = capture_visible_pane(pane_id)
    /\ UNCHANGED <<world, ctl, session, warnings>>

CaptureFull(pane_id) ==
    /\ ctl = "bound"
    /\ last = Idle
    /\ last' = capture_full_pane(pane_id)
    /\ UNCHANGED <<world, ctl, session, warnings>>


\* ------------------------------------------------------ TmuxMCP.send_keys
\* The `enter` argument as passed; omitted, it defaults to True.
EnterArgs == {None, Some(TRUE), Some(FALSE)}
EnterValue(enter_arg) == IF enter_arg = None THEN TRUE ELSE enter_arg[1]

\* KeysSent, ignoring the enter flag.
KeysSent_AlwaysEnter(pane, keys_to_send, enter) ==
    <<[pane |-> pane, key |-> keys_to_send], [pane |-> pane, key |-> Enter]>>

\* pane.send_keys(keys_to_send, enter=enter): the keystrokes the pane receives
KeysSent(pane, keys_to_send, enter) ==
    <<[pane |-> pane, key |-> keys_to_send]>>
        \o (IF enter THEN <<[pane |-> pane, key |-> Enter]>> ELSE <<>>)

\* Between the write and the capture the terminal may or may not have echoed:
\* an echo is one more line on the pane's screen.
SendKeys(pane_id, keys_to_send, enter_arg) ==
    /\ ctl = "bound"
    /\ last = Idle
    /\ LET pane == Lookup(SessionPanes(session[1]), pane_id)
           arg  == <<pane_id, keys_to_send, enter_arg>>
       IN IF pane = None
          THEN /\ last' = Raise("send_keys", arg, PaneMissingErr(pane_id), 1)
               /\ UNCHANGED <<keylog, buf>>
          ELSE /\ keylog' = keylog \o KeysSent(pane[1], keys_to_send, EnterValue(enter_arg))
               /\ \E echoed \in (IF TotalOutput < MaxOutput THEN BOOLEAN ELSE {FALSE}) :
                     buf' = IF echoed
                            THEN [buf EXCEPT ![pane[1]] = Append(@, Line(pane[1], Len(@) + 1))]
                            ELSE buf
               /\ last' = Return("send_keys", arg, Join(Screen(buf'[pane[1]])), 3)
    /\ UNCHANGED <<sessions, wins, panes, nextWin, nextPane, ctl, session, warnings>>

\* ------------------------------------------------- TmuxMCP.dump_all_panes
Modes        == {"visible", "full", "bogus"}
MaxLinesArgs == {None} \cup {Some(m) : m \in -1 .. 3}
\* What goes wrong while a pane is read: nothing, the capture raises, or a
\* metadata read raises.
FaultKinds == {"none", "capture", "meta"}
FaultExc(kind) == [type |-> "LibTmuxException", msg |-> kind]

\* lines = pane.capture_pane("-") if mode == "full" else pane.capture_pane()
CaptureLines(p, mode) == IF mode = "full" THEN FullLines(p) ELSE VisibleLines(p)

\* Truncate, keeping the first lines (lines[:max_lines]).
Truncate_Head(lines, max_lines) ==
    IF max_lines # None /\ max_lines[1] > 0
    THEN SubSeq(lines, 1, IF max_lines[1] < Len(lines) THEN max_lines[1] ELSE Len(lines))
    ELSE lines

\* if max_lines is not None and max_lines > 0: lines = lines[-max_lines:]
Truncate(lines, max_lines) ==
    IF max_lines # None /\ max_lines[1] > 0 THEN LastN(lines, max_lines[1]) ELSE lines

\* The dict appended on success.
SuccessReport(s, w, p, contents) ==
    [window_id |-> w, window_name |-> WindowName(w), window_index |-> WindowIndex(s, w),
     pane_id |-> p, pane_index |-> PaneIndex(w, p),
     pane_active |-> (PaneActiveFmt(w, p) = "1"),
     pane_current_command |-> PaneCommand(p), pane_title |-> PaneTitle(p),
     pane_current_path |-> PanePath(p), contents |-> contents]

\* ErrorReport, carrying an empty contents field as well.
ErrorReport_WithContents(s, w, p, e) ==
    [window_id |-> w, window_name |-> WindowName(w), window_index |-> WindowIndex(s, w),
     pane_id |-> p, error |-> <<e.type, e.msg>>, contents |-> <<>>]

\* The dict appended by the except branch: f"{type(e).__name__}: {e}"
ErrorReport(s, w, p, e) ==
    [window_id |-> w, window_name |-> WindowName(w), window_index |-> WindowIndex(s, w),
     pane_id |-> p, error |-> <<e.type, e.msg>>]

\* The body of the inner loop for one pane: the report appended and the
\* number of reads of the pane attempted (one capture, five metadata reads).
PaneStep(s, w, p, mode, max_lines, fault) ==
    IF fault = "capture"
    THEN [rep |-> ErrorReport(s, w, p, FaultExc(fault)), reads |-> 1]
    ELSE LET contents == Join(Truncate(CaptureLines(p, mode), max_lines))
         IN IF fault = "meta"
            THEN [rep |-> ErrorReport(s, w, p, FaultExc(fault)), reads |-> 2]
            ELSE [rep |-> SuccessReport(s, w, p, contents), reads |-> 6]

\* SweepPanes, whose except branch appends nothing.
RECURSIVE SweepPanes_DropFailed(_, _, _, _, _, _)
SweepPanes_DropFailed(s, w, ps, mode, max_lines, faults) ==
    IF ps = <<>> THEN <<>>
    ELSE (IF faults[Head(ps)] # "none" THEN <<>>
          ELSE <<PaneStep(s, w, Head(ps), mode, max_lines, faults[Head(ps)])>>)
            \o SweepPanes_DropFailed(s, w, Tail(ps), mode, max_lines, faults)

\* for pane in window.panes
RECURSIVE SweepPanes(_, _, _, _, _, _)
SweepPanes(s, w, ps, mode, max_lines, faults) ==
    IF ps = <<>> THEN <<>>
    ELSE <<PaneStep(s, w, Head(ps), mode, max_lines, faults[Head(ps)])>>
            \o SweepPanes(s, w, Tail(ps), mode, max_lines, faults)

\* for window in self.session.windows
RECURSIVE SweepWindows(_, _, _, _, _)
SweepWindows(s, ws, mode, max_lines, faults) ==
    IF ws = <<>> THEN <<>>
    ELSE SweepPanes(s, Head(ws), panes[Head(ws)], mode, max_lines, faults)
            \o SweepWindows(s, Tail(ws), mode, max_lines, faults)

\* dump_all_panes, validating the mode only after the sweep.
dump_all_panes_LateCheck(mode, max_lines, faults) ==
    LET arg   == <<mode, max_lines>>
        steps == SweepWindows(session[1], SessionWindows(session[1]),
                              mode, max_lines, faults)
        reads == SeqSum([i \in DOMAIN steps |-> steps[i].reads])
    IN IF mode \notin {"visible", "full"}
       THEN Raise("dump_all_panes", arg, BadModeErr, reads)
       ELSE Return("dump_all_panes", arg \o <<faults>>,
                   [i \in DOMAIN steps |-> steps[i].rep], reads)

dump_all_panes(mode, max_lines, faults) ==
    LET arg == <<mode, max_lines>>
    IN IF mode \notin {"visible", "full"}
       THEN Raise("dump_all_panes", arg, BadModeErr, 0)
       ELSE LET steps == SweepWindows(session[1], SessionWindows(session[1]),
                                      mode, max_lines, faults)
            IN Return("dump_all_panes", arg \o <<faults>>,
                      [i \in DOMAIN steps |-> steps[i].rep],
                      SeqSum([i \in DOMAIN steps |-> steps[i].reads]))

\* Faults are drawn for the panes of the bound session; no other pane is read.
FaultMaps == [PaneIds -> FaultKinds]

DumpAllPanes(mode, max_lines, faults) ==
    /\ ctl = "bound"
    /\ last = Idle
    /\ \A p \in PaneIds : p \notin Range(SessionPanes(session[1])) => faults[p] = "none"
    /\ last' = dump_all_panes(mode, max_lines, faults)
    /\ UNCHANGED <<world, ctl, session, warnings>>

\* The caller takes the outcome of its call; the next call may follow.
Deliver ==
    /\ last # Idle
    /\ last' = Idle
    /\ keylog' = <<>>
    /\ UNCHANGED <<sessions, wins, panes, buf, nextWin, nextPane, ctl, session, warnings>>

\* ------------------------------------------------------------- Next
Next ==
    \/ \E s \in SessionNames : NewWindow(s)
    \/ \E w \in WindowIds : SplitWindow(w)
    \/ \E w \in WindowIds, p \in PaneIds : KillPane(w, p)
    \/ \E p \in PaneIds : Output(p)
    \/ \E n \in SessionNameArgs : Construct(n)
    \/ ListWindowIds
    \/ \E w \in WindowIds : ListPaneIds(w)
    \/ \E p \in PaneIds : CaptureVisible(p)
    \/ \E p \in PaneIds : CaptureFull(p)
    \/ \E p \in PaneIds, t \in Texts, e \in EnterArgs : SendKeys(p, t, e)
    \/ \E m \in Modes, n \in MaxLinesArgs, f \in FaultMaps : DumpAllPanes(m, n, f)
    \/ Deliver

Spec == Init /\ [][Next]_vars


\* =================================================================
\* Properties.  In a state where `last` holds a call's outcome the world is
\* the one the call ran against (and, for send_keys, left behind).
\* =================================================================
ValidModes == {"visible", "full"}
Bound      == session[1]

IsDump     == last.op = "dump_all_panes"
DumpDone   == IsDump /\ last.outcome = "return"
HasError(r)    == "error" \in DOMAIN r
HasContents(r) == "contents" \in DOMAIN r

\* C1: a dump in a valid mode returns normally with one report per pane of
\* the bound session, in sweep order; the error reports are exactly those of
\* the panes whose capture or metadata read raised, all others are successes
\* (so one failing pane out of N gives N reports, 1 error, N-1 successes).
C1_DumpFailureIsolation ==
    (IsDump /\ last.arg[1] \in ValidModes) =>
        /\ last.outcome = "return"
        /\ LET ps      == SessionPanes(Bound)
               failing == {i \in DOMAIN ps : last.arg[3][ps[i]] # "none"}
           IN /\ Len(last.value) = Len(ps)
              /\ {i \in DOMAIN last.value : HasError(last.value[i])} = failing
              /\ {i \in DOMAIN last.value : HasContents(last.value[i])} = DOMAIN ps \ failing
              /\ \A i \in DOMAIN last.value : i \in DOMAIN ps => last.value[i].pane_id = ps[i]

C1_Witness ==
    /\ DumpDone
    /\ Len(SessionPanes(Bound)) >= 2
    /\ Len(last.value) = Len(SessionPanes(Bound))
    /\ Cardinality({i \in DOMAIN last.value : HasError(last.value[i])}) = 1
    /\ Cardinality({p \in PaneIds : last.arg[3][p] # "none"}) = 1

\* C2: capture_visible_pane, capture_full_pane and send_keys on a pane id that
\* is no pane of the bound session raise the pane-not-found error naming that
\* id (the spec's PaneNotFoundError), return no text and write no keystroke.
C2_MissingPaneRaises ==
    (/\ last.op \in {"capture_visible_pane", "capture_full_pane", "send_keys"}
     /\ last.arg[1] \notin Range(SessionPanes(Bound))) =>
        /\ last.outcome = "raise"
        /\ last.err = PaneMissingErr(last.arg[1])
        /\ last.value = <<>>
        /\ keylog = <<>>

\* a capture of a pane that lives, with output, in another session
C2_Witness ==
    /\ last.op = "capture_full_pane"
    /\ last.outcome = "raise"
    /\ last.arg[1] \notin Range(SessionPanes(Bound))
    /\ buf[last.arg[1]] # <<>>

\* C3: list_pane_ids never raises; for a window id that is no window of the
\* bound session it returns the empty sequence, for a window of the bound
\* session exactly that window's pane ids.
C3_ListPaneIdsLenient ==
    (last.op = "list_pane_ids") =>
        /\ last.outcome = "return"
        /\ last.value = IF last.arg[1] \in Range(SessionWindows(Bound))
                        THEN panes[last.arg[1]]
                        ELSE <<>>

\* a window that exists, with panes, in another session
C3_Witness ==
    /\ last.op = "list_pane_ids"
    /\ last.arg[1] \notin Range(SessionWindows(Bound))
    /\ panes[last.arg[1]] # <<>>
    /\ last.value = <<>>

\* C4: a dump with a mode other than "visible" and "full" raises the
\* invalid-mode error (the spec's InvalidArgumentError) having read nothing.
C4_BadModeReadsNothing ==
    (IsDump /\ last.arg[1] \notin ValidModes) =>
        /\ last.outcome = "raise"
        /\ last.err = BadModeErr
        /\ last.reads = 0
        /\ last.value = <<>>

C4_Witness ==
    /\ IsDump
    /\ last.arg[1] = "bogus"
    /\ last.outcome = "raise"
    /\ Len(SessionPanes(Bound)) >= 2
    /\ \E p \in Range(SessionPanes(Bound)) : buf[p] # <<>>

\* C5: constructed with no session name: with no live session construction
\* fails with the no-sessions error (the spec's NoSessionError); with one
\* live session that one is bound and nothing is logged; with two or more
\* the first in enumeration order is bound and exactly one warning is logged.
NoNameGiven == last.arg[1] \in {None, Some("")}

C5_DefaultBinding ==
    (last.op = "init" /\ NoNameGiven) =>
        /\ Len(sessions) = 0 =>
              /\ last.outcome = "raise" /\ last.err = NoSessionsErr
              /\ ctl = "failed" /\ session = None /\ warnings = 0
        /\ Len(sessions) = 1 =>
              /\ last.outcome = "return" /\ ctl = "bound"
              /\ session = Some(sessions[1]) /\ warnings = 0
        /\ Len(sessions) >= 2 =>
              /\ last.outcome = "return" /\ ctl = "bound"
              /\ session = Some(sessions[1]) /\ warnings = 1

C5_Witness ==
    /\ last.op = "init" /\ last.arg[1] = None
    /\ Len(sessions) = 2
    /\ session = Some(sessions[1])
    /\ warnings = 1

\* C6 as stated: constructed with a session name that no live session bears
\* (the empty set of sessions included), construction fails with the
\* session-not-found error naming it and binds nothing; with the name
\* present exactly that session is bound.
C6_AsStated ==
    (last.op = "init" /\ ~NoNameGiven) =>
        LET name == last.arg[1][1]
        IN IF name \in Range(sessions)
           THEN last.outcome = "return" /\ ctl = "bound" /\ session = Some(name)
           ELSE /\ last.outcome = "raise" /\ last.err = SessionMissingErr(name)
                /\ ctl = "failed" /\ session = None

\* C6 amended: the session-not-found error is raised when at least one
\* session is live and none bears the name; with no live session at all the
\* no-sessions error is raised instead.  Either way nothing is bound.
C6_NamedBinding ==
    (last.op = "init" /\ ~NoNameGiven) =>
        LET name == last.arg[1][1]
        IN IF name \in Range(sessions)
           THEN /\ last.outcome = "return" /\ ctl = "bound"
                /\ session = Some(name) /\ warnings = 0
           ELSE /\ last.outcome = "raise" /\ ctl = "failed" /\ session = None
                /\ last.err = IF sessions = <<>> THEN NoSessionsErr
                              ELSE SessionMissingErr(name)

C6_Witness ==
    /\ last.op = "init"
    /\ last.arg[1] = Some("gone")
    /\ Len(sessions) = 2
    /\ last.err = SessionMissingErr("gone")
    /\ session = None

\* C7: in a success report of a dump the contents are the captured lines of
\* the pane (per mode) joined by newlines: all K of them when max_lines is
\* absent, not positive or at least K, and the last max_lines of them, in
\* their order, when 0 < max_lines < K.
Captured(p, mode) ==
    IF mode = "full" THEN buf[p]
    ELSE [j \in 1 .. (IF Len(buf[p]) < ScreenRows THEN Len(buf[p]) ELSE ScreenRows) |->
             buf[p][Len(buf[p]) - (IF Len(buf[p]) < ScreenRows THEN Len(buf[p]) ELSE ScreenRows) + j]]

Cuts(m, K) == m # None /\ 0 < m[1] /\ m[1] < K

C7_MaxLinesTail ==
    DumpDone =>
        \A i \in DOMAIN last.value :
            HasContents(last.value[i]) =>
                LET cap == Captured(last.value[i].pane_id, last.arg[1])
                    K   == Len(cap)
                    m   == last.arg[2]
                IN last.value[i].contents =
                      IF Cuts(m, K)
                      THEN Join([j \in 1 .. m[1] |-> cap[K - m[1] + j]])
                      ELSE Join(cap)

\* two lines kept out of three: the order of the kept lines shows
C7_Witness ==
    /\ DumpDone
    /\ last.arg[2] = Some(2)
    /\ \E i \in DOMAIN last.value :
          /\ HasContents(last.value[i])
          /\ Len(Captured(last.value[i].pane_id, last.arg[1])) = 3
          /\ Len(last.value[i].contents) = 3

\* C8: send_keys on a pane of the bound session writes the text to that pane
\* and to no other; no Enter follows when enter is False, exactly one Enter
\* follows the text when enter is True or omitted; the value returned is the
\* pane's visible content as it is after the write.
C8_SendKeys ==
    (last.op = "send_keys" /\ last.outcome = "return") =>
        LET p      == last.arg[1]
            submit == IF last.arg[3] = None THEN TRUE ELSE last.arg[3][1]
        IN /\ p \in Range(SessionPanes(Bound))
           /\ keylog # <<>>
           /\ \A i \in DOMAIN keylog : keylog[i].pane = p
           /\ keylog[1].key = last.arg[2]
           /\ Len(keylog) = IF submit THEN 2 ELSE 1
           /\ submit => keylog[2].key = Enter
           /\ last.value = Join(Captured(p, "visible"))

\* enter omitted, and the terminal has echoed by the time of the capture
C8_Witness ==
    /\ last.op = "send_keys" /\ last.outcome = "return"
    /\ last.arg[3] = None
    /\ Len(keylog) = 2 /\ keylog[2].key = Enter
    /\ last.value # <<>>

\* a send with enter False: the text alone
C8_NoEnterReached ==
    /\ last.op = "send_keys" /\ last.outcome = "return"
    /\ last.arg[3] = Some(FALSE)
    /\ Len(keylog) = 1

\* C9: the errors the calls open in a state raise are told apart by their
\* exception type: two errors for different conditions (different messages)
\* never have the same type.
ErrorsRaisable ==
    IF ctl = "unbound"
    THEN {Bind(n).err : n \in {m \in SessionNameArgs : Bind(m).outcome = "raise"}}
    ELSE IF ctl = "bound"
    THEN {capture_visible_pane(p).err :
             p \in {q \in PaneIds : capture_visible_pane(q).outcome = "raise"}}
         \cup {capture_full_pane(p).err :
             p \in {q \in PaneIds : capture_full_pane(q).outcome = "raise"}}
         \cup {dump_all_panes(m, None, [p \in PaneIds |-> "none"]).err :
             m \in {x \in Modes :
                      dump_all_panes(x, None, [p \in PaneIds |-> "none"]).outcome = "raise"}}
    ELSE {}

C9_ErrorsTypedApart ==
    \A e1, e2 \in ErrorsRaisable : e1.msg # e2.msg => e1.type # e2.type

\* C10: every report of a dump names the window owning the pane (id, name,
\* index) and the pane; a success report has the five pane metadata fields
\* and contents and no error; an error report has error, holding the kind
\* and message of the failure, and neither contents nor pane metadata.
WindowFields  == {"window_id", "window_name", "window_index", "pane_id"}
PaneFields    == {"pane_index", "pane_active", "pane_current_command",
                  "pane_title", "pane_current_path"}
OwnerOf(p)    == CHOOSE w \in Range(SessionWindows(Bound)) : p \in Range(panes[w])

C10_ReportShape ==
    DumpDone =>
        \A i \in DOMAIN last.value :
            LET r == last.value[i]
                w == OwnerOf(r.pane_id)
            IN /\ r.pane_id \in Range(SessionPanes(Bound))
               /\ r.window_id = w
               /\ r.window_name = WindowName(w)
               /\ r.window_index = WindowIndex(Bound, w)
               /\ HasContents(r) # HasError(r)
               /\ HasContents(r) =>
                     /\ DOMAIN r = WindowFields \cup PaneFields \cup {"contents"}
                     /\ r.pane_index = PaneIndex(w, r.pane_id)
                     /\ r.pane_active = (r.pane_id = SetMax(Range(panes[w])))
                     /\ r.pane_current_command = PaneCommand(r.pane_id)
                     /\ r.pane_title = PaneTitle(r.pane_id)
                     /\ r.pane_current_path = PanePath(r.pane_id)
               /\ HasError(r) =>
                     /\ DOMAIN r = WindowFields \cup {"error"}
                     /\ r.error = <<"LibTmuxException", last.arg[3][r.pane_id]>>

\* a dump over two windows giving one success and one error report
C10_Witness ==
    /\ DumpDone
    /\ Len(SessionWindows(Bound)) = 2
    /\ \E i, j \in DOMAIN last.value :
          /\ HasContents(last.value[i]) /\ last.value[i].contents # <<>>
          /\ HasError(last.value[j])
          /\ last.value[i].window_id # last.value[j].window_id

====
